---- MODULE Spec2Model ----
(***************************************************************************)
(* Linear slip-weakening friction solver of SeisSol's dynamic rupture:     *)
(* LinearSlipWeakeningLaw (strength, slip rate / traction, state variable, *)
(* friction coefficient, healing, dynamic-stress output) and the output    *)
(* accumulators of friction_law::Common (rupture front, peak slip rate,    *)
(* average slip).  The model follows the arrays of one ltsFace: every      *)
(* function of the source indexes its arrays by [ltsFace][pointIndex] only. *)
(***************************************************************************)
EXTENDS Integers, Sequences, FiniteSets, TLC

(***************************************************************************)
(* `real` arithmetic.  A real is a pair <<n, d>>: the rational n/d in      *)
(* lowest terms with d > 0, or a non-finite IEEE value when d = 0          *)
(* (<<0,0>> NaN, <<1,0>> +inf, <<-1,0>> -inf).  Arithmetic is exact:       *)
(* rounding is not modelled, signed zeros are identified.                  *)
(***************************************************************************)
Sign(n) == IF n > 0 THEN 1 ELSE IF n < 0 THEN -1 ELSE 0

IAbs(n) == IF n < 0 THEN -n ELSE n

RECURSIVE GCD(_, _)
GCD(a, b) == IF b = 0 THEN a ELSE GCD(b, a % b)

Norm(n, d) ==
  IF d = 0 THEN <<Sign(n), 0>>
  ELSE LET s == Sign(d)
           g == GCD(IAbs(n), IAbs(d))
       IN  <<(s * n) \div g, (s * d) \div g>>

Rat(n, d) == Norm(n, d)

Zero == <<0, 1>>

One == <<1, 1>>

NaN == <<0, 0>>

IsNaN(a) == a = NaN

IsFinite(a) == a[2] # 0

RNeg(a) == <<-a[1], a[2]>>

RAdd(a, b) ==
  IF IsNaN(a) \/ IsNaN(b) THEN NaN
  ELSE IF a[2] = 0 /\ b[2] = 0 THEN (IF a = b THEN a ELSE NaN)
  ELSE IF a[2] = 0 THEN a
  ELSE IF b[2] = 0 THEN b
  ELSE LET g == GCD(a[2], b[2])
       IN  Norm(a[1] * (b[2] \div g) + b[1] * (a[2] \div g), (a[2] \div g) * b[2])

RSub(a, b) == RAdd(a, RNeg(b))

RMul(a, b) ==
  IF a[2] = 0 \/ b[2] = 0 THEN <<Sign(a[1]) * Sign(b[1]), 0>>
  ELSE LET g1 == GCD(IAbs(a[1]), b[2])
           g2 == GCD(IAbs(b[1]), a[2])
       IN  <<(a[1] \div g1) * (b[1] \div g2), (a[2] \div g2) * (b[2] \div g1)>>

RRecip(a) ==
  IF a[1] > 0 THEN <<a[2], a[1]>>
  ELSE IF a[1] < 0 THEN <<-a[2], -a[1]>>
  ELSE IF a[2] = 0 THEN NaN
  ELSE <<1, 0>>

RDiv(a, b) == RMul(a, RRecip(b))

\* operator < of C++: false whenever an operand is NaN
RLt(a, b) ==
  IF IsNaN(a) \/ IsNaN(b) THEN FALSE
  ELSE IF a[2] = 0 \/ b[2] = 0
       THEN a # b /\ (a = <<-1, 0>> \/ b = <<1, 0>>)
  ELSE LET g == GCD(a[2], b[2])
       IN  a[1] * (b[2] \div g) < b[1] * (a[2] \div g)

RGt(a, b) == RLt(b, a)

\* operator >= of C++
RGe(a, b) == ~IsNaN(a) /\ ~IsNaN(b) /\ ~RLt(a, b)

RLe(a, b) == RGe(b, a)

\* std::max(a, b) is (a < b) ? b : a
StdMax(a, b) == IF RLt(a, b) THEN b ELSE a

\* std::min(a, b) is (b < a) ? b : a
StdMin(a, b) == IF RLt(b, a) THEN b ELSE a

Fabs(a) == <<IAbs(a[1]), a[2]>>

RECURSIVE ISqrtIn(_, _, _)
ISqrtIn(n, lo, hi) ==
  IF lo >= hi THEN lo
  ELSE LET mid == (lo + hi + 1) \div 2
       IN  IF mid * mid <= n THEN ISqrtIn(n, mid, hi) ELSE ISqrtIn(n, lo, mid - 1)

ISqrt(n) == ISqrtIn(n, 0, IF n < 46340 THEN n ELSE 46340)

\* sqrt on the rationals whose root is rational (the inputs are drawn so)
RSqrt(a) == Norm(ISqrt(a[1]), ISqrt(a[2]))

\* misc::magnitude(x, y) = sqrt(x*x + y*y)
magnitude(x, y) == RSqrt(RAdd(RMul(x, x), RMul(y, y)))

(***************************************************************************)
(* Sizes and input sets                                                    *)
(***************************************************************************)
\* misc::numberOfBoundaryGaussPoints, scaled down
numberOfBoundaryGaussPoints == 3

\* padded tail entries: misc::numPaddedPoints - misc::numberOfBoundaryGaussPoints
NumPadding == 1

numPaddedPoints == numberOfBoundaryGaussPoints + NumPadding

\* CONVERGENCE_ORDER time sub-intervals, scaled down
ConvergenceOrder == 2

\* number of calls one behaviour of Spec makes
MaxSteps == 2

\* number of calls one behaviour of SpecOutputs makes
MaxOutputSteps == 4

\* simulation times 0..MaxTime
MaxTime == 1

Points == 1..numPaddedPoints

\* an array over the padded points, real x[misc::numPaddedPoints], as a tuple
Array(f) == f \o <<>>

BoundaryPoints == 1..numberOfBoundaryGaussPoints

TimeIndices == 0..(ConvergenceOrder - 1)

Times == {Rat(t, 1) : t \in 0..MaxTime}

\* deltaT[timeIndex], the length of a sub-interval
deltaT(timeIndex) == Rat(1, timeIndex + 1)

\* the per-face constant data of a face: LTS_LinearSlipWeakening and ImpedancesAndEta
FaceData ==
  { [muS      |-> Array([p \in Points |-> Rat(1, 2)]),
     muD      |-> Array([p \in Points |-> Rat(1, 10)]),
     cohesion |-> Array([p \in Points |-> Zero]),
     dC       |-> Array([p \in Points |-> One]),
     initialStressInFaultCS |->
        Array([p \in Points |-> [n |-> Rat(-10, 1), t1 |-> Zero, t2 |-> Zero]]),
     impAndEta |-> [etaS |-> Rat(2, 1), invEtaS |-> Rat(1, 2)]],
    [muS      |-> Array([p \in Points |-> IF p = 1 THEN Rat(1, 10) ELSE Rat(1, 2)]),
     muD      |-> Array([p \in Points |-> IF p = 1 THEN Rat(1, 2) ELSE Rat(1, 10)]),
     cohesion |-> Array([p \in Points |-> Rat(-1, 1)]),
     dC       |-> Array([p \in Points |-> Rat(2, 1)]),
     initialStressInFaultCS |->
        Array([p \in Points |-> [n |-> Rat(-10, 1), t1 |-> Rat(3, 1), t2 |-> Zero]]),
     impAndEta |-> [etaS |-> One, invEtaS |-> One]] }

\* one point's row of FaultStresses
StressAtRest == [normalStress |-> Zero, traction1 |-> Zero, traction2 |-> Zero]

Push == [normalStress |-> Zero, traction1 |-> Rat(8, 1), traction2 |-> Zero]

Loads ==
  { Push,
    [normalStress |-> Zero, traction1 |-> Rat(-3, 1), traction2 |-> Rat(4, 1)],
    [normalStress |-> Zero, traction1 |-> Rat(2501, 500), traction2 |-> Zero],
    [normalStress |-> Rat(12, 1), traction1 |-> Zero, traction2 |-> Zero] }

UniformRow(l) == Array([p \in Points |-> IF p \in BoundaryPoints THEN l ELSE StressAtRest])

SingleRow(q, l) == Array([p \in Points |-> IF p = q THEN l ELSE StressAtRest])

\* FaultStresses of a sub-interval as precomputeStressFromQInterpolated leaves them:
\* the padded tail is zero; the boundary points are at rest, all under one load,
\* or the first or the last of them is pushed
FaultStressRows ==
  {UniformRow(StressAtRest)}
  \cup {UniformRow(l) : l \in Loads}
  \cup {SingleRow(q, Push) : q \in {1, numberOfBoundaryGaussPoints}}

\* the rows SpecOutputs draws from
OutputStressRows == {UniformRow(StressAtRest), UniformRow(Push)}

\* tmpSlip buffers handed to saveAverageSlipOutput
TmpSlips ==
  {Array([p \in Points |-> IF p \in BoundaryPoints
                             THEN (IF p = 1 THEN Rat(a, 1) ELSE One)
                             ELSE Rat(t, 1)]) : a \in {1, 2}, t \in {0, 5}}

\* the buffer SpecOutputs hands over
OutputTmpSlips == {Array([p \in Points |-> IF p \in BoundaryPoints THEN One ELSE Rat(5, 1)])}

NoTmpSlip == Array([p \in Points |-> Zero])

(***************************************************************************)
(* State                                                                    *)
(***************************************************************************)
VARIABLES
  muS, muD, cohesion, dC, initialStressInFaultCS, impAndEta,
  mu, slipRateMagnitude, slipRate1, slipRate2, traction1, traction2,
  slip1, slip2, accumulatedSlipMagnitude,
  ruptureTimePending, ruptureTime, dynStressTimePending, dynStressTime,
  peakSlipRate, averagedSlip, mFullUpdateTime,
  faultStresses, tractionResults, strengthBuffer, stateVariableBuffer,
  lastCall, peakInputs, step,
  stage, todo, stageArgs, expected

faceVars == <<muS, muD, cohesion, dC, initialStressInFaultCS, impAndEta>>

frictionVars == <<mu, slipRateMagnitude, slipRate1, slipRate2, traction1, traction2,
                  slip1, slip2, accumulatedSlipMagnitude,
                  faultStresses, tractionResults, strengthBuffer, stateVariableBuffer>>

ruptureVars == <<ruptureTimePending, ruptureTime>>

dynStressVars == <<dynStressTimePending, dynStressTime>>

\* the position inside a stage whose per-point iterations run one by one
loopVars == <<stage, todo, stageArgs, expected>>

vars == <<faceVars, frictionVars, ruptureVars, dynStressVars,
          peakSlipRate, averagedSlip, mFullUpdateTime, lastCall, peakInputs, step,
          loopVars>>

Call(op, timeIndex, time, tmpSlip) ==
  [op |-> op, timeIndex |-> timeIndex, fullUpdateTime |-> time, tmpSlip |-> tmpSlip]

\* the arrays the stages write, as one value
Mem ==
  [strengthBuffer |-> strengthBuffer,
   slipRateMagnitude |-> slipRateMagnitude,
   slipRate1 |-> slipRate1,
   slipRate2 |-> slipRate2,
   tractionResults |-> tractionResults,
   traction1 |-> traction1,
   traction2 |-> traction2,
   slip1 |-> slip1,
   slip2 |-> slip2,
   accumulatedSlipMagnitude |-> accumulatedSlipMagnitude,
   stateVariableBuffer |-> stateVariableBuffer,
   mu |-> mu,
   ruptureTimePending |-> ruptureTimePending,
   ruptureTime |-> ruptureTime,
   peakSlipRate |-> peakSlipRate,
   dynStressTimePending |-> dynStressTimePending,
   dynStressTime |-> dynStressTime]

\* the arguments of a stage; resampledSlipRate is the local array the resample
\* kernel fills before the loop of calcStateVariableHook
StageArgs(fs, timeIndex, fullUpdateTime, resampledSlipRate) ==
  [fs |-> fs, timeIndex |-> timeIndex, fullUpdateTime |-> fullUpdateTime,
   resampledSlipRate |-> resampledSlipRate]

Init ==
  /\ \E f \in FaceData :
       /\ muS = f.muS
       /\ muD = f.muD
       /\ cohesion = f.cohesion
       /\ dC = f.dC
       /\ initialStressInFaultCS = f.initialStressInFaultCS
       /\ impAndEta = f.impAndEta
       /\ mu = f.muS
  /\ slipRateMagnitude = Array([p \in Points |-> Zero])
  /\ slipRate1 = Array([p \in Points |-> Zero])
  /\ slipRate2 = Array([p \in Points |-> Zero])
  /\ traction1 = Array([p \in Points |-> Zero])
  /\ traction2 = Array([p \in Points |-> Zero])
  /\ slip1 = Array([p \in Points |-> Zero])
  /\ slip2 = Array([p \in Points |-> Zero])
  /\ accumulatedSlipMagnitude = Array([p \in Points |-> Zero])
  /\ ruptureTimePending = Array([p \in Points |-> TRUE])
  /\ ruptureTime = Array([p \in Points |-> Zero])
  /\ dynStressTimePending = Array([p \in Points |-> TRUE])
  /\ dynStressTime = Array([p \in Points |-> Zero])
  /\ peakSlipRate = Array([p \in Points |-> Zero])
  /\ averagedSlip = Zero
  /\ mFullUpdateTime = Zero
  /\ faultStresses = Array([p \in Points |-> StressAtRest])
  /\ tractionResults = Array([p \in Points |-> [traction1 |-> Zero, traction2 |-> Zero]])
  /\ strengthBuffer = Array([p \in Points |-> Zero])
  /\ stateVariableBuffer = Array([p \in Points |-> Zero])
  /\ lastCall = Call("init", 0, Zero, NoTmpSlip)
  /\ peakInputs = Array([p \in Points |-> {}])
  /\ step = 0
  /\ stage = "idle"
  /\ todo = {}
  /\ stageArgs = StageArgs(Array([p \in Points |-> StressAtRest]), 0, Zero, NoTmpSlip)
  /\ expected = Mem

(***************************************************************************)
(* LinearSlipWeakeningLaw<NoSpecialization>                                 *)
(***************************************************************************)
\* strength = -cohesion - mu * min(totalNormalStress, 0)
strengthOf(c, m, totalNormalStress) ==
  RSub(RNeg(c), RMul(m, StdMin(totalNormalStress, Zero)))

\* NoSpecialization::strengthHook leaves the strength as it is
strengthHook(strength) == strength

calcStrengthHook(fs) ==
  Array([p \in Points |->
     strengthHook(strengthOf(cohesion[p], mu[p],
                             RAdd(initialStressInFaultCS[p].n, fs[p].normalStress)))])

totalTraction1(fs, p) == RAdd(initialStressInFaultCS[p].t1, fs[p].traction1)

totalTraction2(fs, p) == RAdd(initialStressInFaultCS[p].t2, fs[p].traction2)

absoluteTraction(fs, p) == magnitude(totalTraction1(fs, p), totalTraction2(fs, p))


\* slipRateMagnitudeOf without the clamp at zero
slipRateMagnitudeUnclamped(absT, strength, invEtaS) ==
  RMul(RSub(absT, strength), invEtaS)

\* slipRateMagnitudeOf with std::min for std::max
slipRateMagnitudeMin(absT, strength, invEtaS) ==
  StdMin(Zero, RMul(RSub(absT, strength), invEtaS))

\* max(0, (absoluteTraction - strength) * invEtaS)
slipRateMagnitudeOf(absT, strength, invEtaS) ==
  StdMax(Zero, RMul(RSub(absT, strength), invEtaS))

divisorOf(strength, etaS, srm) == RAdd(strength, RMul(etaS, srm))

slipRateOf(srm, totalTraction, divisor) == RDiv(RMul(srm, totalTraction), divisor)


\* tractionOf with the slip-rate term added instead of subtracted
tractionOfAdded(faultTraction, etaS, slipRate) == RAdd(faultTraction, RMul(etaS, slipRate))

tractionOf(faultTraction, etaS, slipRate) == RSub(faultTraction, RMul(etaS, slipRate))

slipOf(slip, slipRate, dt) == RAdd(slip, RMul(slipRate, dt))

\* the values calcSlipRateAndTraction computes at a point
calcSlipRateAndTraction(fs, strength, timeIndex) ==
  Array([p \in Points |->
     LET T1  == totalTraction1(fs, p)
         T2  == totalTraction2(fs, p)
         srm == slipRateMagnitudeOf(absoluteTraction(fs, p), strength[p],
                                    impAndEta.invEtaS)
         div == divisorOf(strength[p], impAndEta.etaS, srm)
         sr1 == slipRateOf(srm, T1, div)
         sr2 == slipRateOf(srm, T2, div)
     IN  [slipRateMagnitude |-> srm,
          slipRate1 |-> sr1,
          slipRate2 |-> sr2,
          traction1 |-> tractionOf(fs[p].traction1, impAndEta.etaS, sr1),
          traction2 |-> tractionOf(fs[p].traction2, impAndEta.etaS, sr2),
          slip1 |-> slipOf(slip1[p], sr1, deltaT(timeIndex)),
          slip2 |-> slipOf(slip2[p], sr2, deltaT(timeIndex))]])

\* init::resample::Values: the L2 projection of the point values on the
\* polynomials of degree <= 1 over the boundary points, evaluated at the
\* boundary points; rows and columns of the padded tail are zero
resample ==
  [i \in Points |-> [j \in Points |->
     IF i \in BoundaryPoints /\ j \in BoundaryPoints
       THEN LET n == numberOfBoundaryGaussPoints
            IN  Rat((n * n - 1) + 3 * (2 * i - n - 1) * (2 * j - n - 1), n * (n * n - 1))
       ELSE Zero]]

RECURSIVE resampleRow(_, _, _)
resampleRow(originalQ, i, j) ==
  IF j = 0 THEN Zero
  ELSE RAdd(resampleRow(originalQ, i, j - 1), RMul(resample[i][j], originalQ[j]))

\* dynamicRupture::kernel::resampleParameter::execute
resampleKrnl(originalQ) == Array([i \in Points |-> resampleRow(originalQ, i, numPaddedPoints)])

accumulatedSlipOf(acc, resampledSlipRate, dt) == RAdd(acc, RMul(resampledSlipRate, dt))


\* stateVariableOf without the clamp at one
stateVariableUnclamped(acc, dc) == RDiv(Fabs(acc), dc)

\* min(fabs(accumulatedSlipMagnitude) / dC, 1)
stateVariableOf(acc, dc) == StdMin(RDiv(Fabs(acc), dc), One)

\* NoSpecialization::stateVariableHook leaves the state variable as it is
stateVariableHook(stateVariable) == stateVariable

\* the accumulated slip calcStateVariableHook leaves, from the new slip rate magnitude
calcAccumulatedSlip(srm, timeIndex) ==
  LET resampledSlipRate == resampleKrnl(srm)
  IN  Array([p \in Points |->
         accumulatedSlipOf(accumulatedSlipMagnitude[p], resampledSlipRate[p],
                           deltaT(timeIndex))])

calcStateVariableHook(acc) ==
  stateVariableHook(Array([p \in Points |-> stateVariableOf(acc[p], dC[p])]))


\* frictionOf with the weakening term added instead of subtracted
frictionOfAdded(ms, md, stateVariable) == RAdd(ms, RMul(RSub(ms, md), stateVariable))

\* mu = muS - (muS - muD) * stateVariable
frictionOf(ms, md, stateVariable) == RSub(ms, RMul(RSub(ms, md), stateVariable))

frictionFunctionHook(stateVariable) ==
  Array([p \in Points |-> frictionOf(muS[p], muD[p], stateVariable[p])])

\* the total shear traction of every point has a rational magnitude
ExactMagnitudes(fs) ==
  \A p \in Points :
    LET m == absoluteTraction(fs, p)
    IN  RMul(m, m) = RAdd(RMul(totalTraction1(fs, p), totalTraction1(fs, p)),
                          RMul(totalTraction2(fs, p), totalTraction2(fs, p)))

\* frictionStages with the slip-rate stage run ahead of the strength stage: it
\* reads the strength buffer the previous call left behind
frictionStagesStaleStrength(fs, timeIndex) ==
  LET strength == calcStrengthHook(fs)
      res      == calcSlipRateAndTraction(fs, strengthBuffer, timeIndex)
      srm      == Array([p \in Points |-> res[p].slipRateMagnitude])
      acc      == calcAccumulatedSlip(srm, timeIndex)
      sv       == calcStateVariableHook(acc)
  IN  [strengthBuffer |-> strength,
       slipRateMagnitude |-> srm,
       slipRate1 |-> Array([p \in Points |-> res[p].slipRate1]),
       slipRate2 |-> Array([p \in Points |-> res[p].slipRate2]),
       traction1 |-> Array([p \in Points |-> res[p].traction1]),
       traction2 |-> Array([p \in Points |-> res[p].traction2]),
       slip1 |-> Array([p \in Points |-> res[p].slip1]),
       slip2 |-> Array([p \in Points |-> res[p].slip2]),
       accumulatedSlipMagnitude |-> acc,
       stateVariableBuffer |-> sv,
       mu |-> frictionFunctionHook(sv)]

\* the four stages of updateFrictionAndSlip in the order of the source: the
\* arrays and buffers they leave behind
frictionStages(fs, timeIndex) ==
  LET strength == calcStrengthHook(fs)
      res      == calcSlipRateAndTraction(fs, strength, timeIndex)
      srm      == Array([p \in Points |-> res[p].slipRateMagnitude])
      acc      == calcAccumulatedSlip(srm, timeIndex)
      sv       == calcStateVariableHook(acc)
  IN  [strengthBuffer |-> strength,
       slipRateMagnitude |-> srm,
       slipRate1 |-> Array([p \in Points |-> res[p].slipRate1]),
       slipRate2 |-> Array([p \in Points |-> res[p].slipRate2]),
       traction1 |-> Array([p \in Points |-> res[p].traction1]),
       traction2 |-> Array([p \in Points |-> res[p].traction2]),
       slip1 |-> Array([p \in Points |-> res[p].slip1]),
       slip2 |-> Array([p \in Points |-> res[p].slip2]),
       accumulatedSlipMagnitude |-> acc,
       stateVariableBuffer |-> sv,
       mu |-> frictionFunctionHook(sv)]

updateFrictionAndSlip(fs, timeIndex) ==
  /\ ExactMagnitudes(fs)
  /\ \E r \in {frictionStages(fs, timeIndex)} :
       /\ faultStresses' = fs
       /\ strengthBuffer' = r.strengthBuffer
       /\ slipRateMagnitude' = r.slipRateMagnitude
       /\ slipRate1' = r.slipRate1
       /\ slipRate2' = r.slipRate2
       /\ tractionResults' =
            Array([p \in Points |-> [traction1 |-> r.traction1[p],
                                     traction2 |-> r.traction2[p]]])
       /\ traction1' = r.traction1
       /\ traction2' = r.traction2
       /\ slip1' = r.slip1
       /\ slip2' = r.slip2
       /\ accumulatedSlipMagnitude' = r.accumulatedSlipMagnitude
       /\ stateVariableBuffer' = r.stateVariableBuffer
       /\ mu' = r.mu
  /\ lastCall' = Call("updateFrictionAndSlip", timeIndex, mFullUpdateTime, NoTmpSlip)
  /\ step' = step + 1
  /\ UNCHANGED <<faceVars, ruptureVars, dynStressVars, peakSlipRate, averagedSlip,
                 mFullUpdateTime, peakInputs>>

\* slipRateMagnitude < u0 with u0 = 10e-14: every denominator of the model is
\* below 10^13, so a value is below u0 exactly when it is not positive
belowU0(a) == ~IsNaN(a) /\ a[1] <= 0

instantaneousHealing ==
  /\ mu' = Array([p \in Points |-> IF belowU0(slipRateMagnitude[p]) THEN muS[p] ELSE mu[p]])
  /\ accumulatedSlipMagnitude' =
       Array([p \in Points |-> IF belowU0(slipRateMagnitude[p])
                           THEN Zero ELSE accumulatedSlipMagnitude[p]])
  /\ lastCall' = Call("instantaneousHealing", 0, mFullUpdateTime, NoTmpSlip)
  /\ step' = step + 1
  /\ UNCHANGED <<faceVars, slipRateMagnitude, slipRate1, slipRate2, traction1, traction2,
                 slip1, slip2, faultStresses, tractionResults, strengthBuffer,
                 stateVariableBuffer, ruptureVars, dynStressVars, peakSlipRate,
                 averagedSlip, mFullUpdateTime, peakInputs>>

dynStressReached(pending, acc, dc) == pending /\ RGe(Fabs(acc), dc)

saveDynamicStressOutput ==
  /\ dynStressTime' =
       Array([p \in Points |->
          IF dynStressReached(dynStressTimePending[p], accumulatedSlipMagnitude[p], dC[p])
            THEN mFullUpdateTime ELSE dynStressTime[p]])
  /\ dynStressTimePending' =
       Array([p \in Points |->
          IF dynStressReached(dynStressTimePending[p], accumulatedSlipMagnitude[p], dC[p])
            THEN FALSE ELSE dynStressTimePending[p]])
  /\ lastCall' = Call("saveDynamicStressOutput", 0, mFullUpdateTime, NoTmpSlip)
  /\ step' = step + 1
  /\ UNCHANGED <<faceVars, frictionVars, ruptureVars, peakSlipRate, averagedSlip,
                 mFullUpdateTime, peakInputs>>

\* the per-face data is bound to the layer and the time of the step is taken over
copyLtsTreeToLocal(fullUpdateTime) ==
  /\ RLt(mFullUpdateTime, fullUpdateTime)
  /\ mFullUpdateTime' = fullUpdateTime
  /\ lastCall' = Call("copyLtsTreeToLocal", 0, fullUpdateTime, NoTmpSlip)
  /\ step' = step + 1
  /\ UNCHANGED <<faceVars, frictionVars, ruptureVars, dynStressVars, peakSlipRate,
                 averagedSlip, peakInputs>>

(***************************************************************************)
(* friction_law::Common                                                     *)
(***************************************************************************)
ruptureFrontThreshold == Rat(1, 1000)

\* ruptureFrontReached without the test of the pending flag
ruptureFrontReachedAgain(pending, srm) == RGt(srm, ruptureFrontThreshold)

\* ruptureFrontReached with >= for >
ruptureFrontReachedAt(pending, srm) == pending /\ RGe(srm, ruptureFrontThreshold)

ruptureFrontReached(pending, srm) == pending /\ RGt(srm, ruptureFrontThreshold)

saveRuptureFrontOutput(fullUpdateTime) ==
  /\ ruptureTime' =
       Array([p \in Points |->
          IF ruptureFrontReached(ruptureTimePending[p], slipRateMagnitude[p])
            THEN fullUpdateTime ELSE ruptureTime[p]])
  /\ ruptureTimePending' =
       Array([p \in Points |->
          IF ruptureFrontReached(ruptureTimePending[p], slipRateMagnitude[p])
            THEN FALSE ELSE ruptureTimePending[p]])
  /\ lastCall' = Call("saveRuptureFrontOutput", 0, fullUpdateTime, NoTmpSlip)
  /\ step' = step + 1
  /\ UNCHANGED <<faceVars, frictionVars, dynStressVars, peakSlipRate, averagedSlip,
                 mFullUpdateTime, peakInputs>>

\* peakOf keeping the last slip rate instead of the larger one
peakOfLast(peak, srm) == srm

peakOf(peak, srm) == StdMax(peak, srm)

savePeakSlipRateOutput ==
  /\ peakSlipRate' = Array([p \in Points |-> peakOf(peakSlipRate[p], slipRateMagnitude[p])])
  /\ peakInputs' = Array([p \in Points |-> peakInputs[p] \cup {slipRateMagnitude[p]}])
  /\ lastCall' = Call("savePeakSlipRateOutput", 0, mFullUpdateTime, NoTmpSlip)
  /\ step' = step + 1
  /\ UNCHANGED <<faceVars, frictionVars, ruptureVars, dynStressVars, averagedSlip,
                 mFullUpdateTime>>

RECURSIVE sumOfTmpSlip(_, _)
sumOfTmpSlip(tmpSlip, n) ==
  IF n = 0 THEN Zero ELSE RAdd(sumOfTmpSlip(tmpSlip, n - 1), tmpSlip[n])

\* averagedSlipOf summing over the padded points
averagedSlipOfPadded(avg, tmpSlip) ==
  RAdd(avg, RDiv(sumOfTmpSlip(tmpSlip, numPaddedPoints),
                 Rat(numberOfBoundaryGaussPoints, 1)))

averagedSlipOf(avg, tmpSlip) ==
  RAdd(avg, RDiv(sumOfTmpSlip(tmpSlip, numberOfBoundaryGaussPoints),
                 Rat(numberOfBoundaryGaussPoints, 1)))

saveAverageSlipOutput(tmpSlip) ==
  /\ averagedSlip' = averagedSlipOf(averagedSlip, tmpSlip)
  /\ lastCall' = Call("saveAverageSlipOutput", 0, mFullUpdateTime, tmpSlip)
  /\ step' = step + 1
  /\ UNCHANGED <<faceVars, frictionVars, ruptureVars, dynStressVars, peakSlipRate,
                 mFullUpdateTime, peakInputs>>

Next ==
  \/ \E fs \in FaultStressRows, timeIndex \in TimeIndices :
       step < MaxSteps /\ updateFrictionAndSlip(fs, timeIndex) /\ UNCHANGED loopVars
  \/ step < MaxSteps /\ instantaneousHealing /\ UNCHANGED loopVars
  \/ step < MaxSteps /\ saveDynamicStressOutput /\ UNCHANGED loopVars
  \/ \E t \in Times : step < MaxSteps /\ copyLtsTreeToLocal(t) /\ UNCHANGED loopVars
  \/ \E t \in Times : step < MaxSteps /\ saveRuptureFrontOutput(t) /\ UNCHANGED loopVars
  \/ step < MaxSteps /\ savePeakSlipRateOutput /\ UNCHANGED loopVars
  \/ \E tmpSlip \in TmpSlips : step < MaxSteps /\ saveAverageSlipOutput(tmpSlip) /\ UNCHANGED loopVars

Spec == Init /\ [][Next]_vars

\* the same operations, longer runs over fewer fault stresses, the first
\* sub-interval only
NextOutputs ==
  \/ \E fs \in OutputStressRows :
       step < MaxOutputSteps /\ updateFrictionAndSlip(fs, 0) /\ UNCHANGED loopVars
  \/ step < MaxOutputSteps /\ instantaneousHealing /\ UNCHANGED loopVars
  \/ step < MaxOutputSteps /\ saveDynamicStressOutput /\ UNCHANGED loopVars
  \/ \E t \in Times : step < MaxOutputSteps /\ copyLtsTreeToLocal(t) /\ UNCHANGED loopVars
  \/ \E t \in Times : step < MaxOutputSteps /\ saveRuptureFrontOutput(t) /\ UNCHANGED loopVars
  \/ step < MaxOutputSteps /\ savePeakSlipRateOutput /\ UNCHANGED loopVars
  \/ \E tmpSlip \in OutputTmpSlips : step < MaxOutputSteps /\ saveAverageSlipOutput(tmpSlip) /\ UNCHANGED loopVars

SpecOutputs == Init /\ [][NextOutputs]_vars

(***************************************************************************)
(* The loops over pointIndex, one iteration at a time                      *)
(***************************************************************************)
\* number of stages one behaviour of SpecPoints runs
MaxStages == 3

\* the loops of the stages: the four of updateFrictionAndSlip and the outputs
FrictionStageNames == {"strength", "slipRate"}

OutputStageNames == {"stateVariable", "coefficient", "ruptureFront", "peakSlipRate", "dynStress"}

\* fault stresses of the stages that read them
PointStressRows == {UniformRow(Push), SingleRow(1, Push)}

\* loop body of calcStrengthHook
strengthIteration(m, p, a) ==
  [m EXCEPT !.strengthBuffer[p] =
     strengthHook(strengthOf(cohesion[p], m.mu[p],
                             RAdd(initialStressInFaultCS[p].n, a.fs[p].normalStress)))]

\* loop body of calcSlipRateAndTraction
slipRateIteration(m, p, a) ==
  LET t1  == totalTraction1(a.fs, p)
      t2  == totalTraction2(a.fs, p)
      srm == slipRateMagnitudeOf(absoluteTraction(a.fs, p), m.strengthBuffer[p],
                                 impAndEta.invEtaS)
      div == divisorOf(m.strengthBuffer[p], impAndEta.etaS, srm)
      sr1 == slipRateOf(srm, t1, div)
      sr2 == slipRateOf(srm, t2, div)
      tr1 == tractionOf(a.fs[p].traction1, impAndEta.etaS, sr1)
      tr2 == tractionOf(a.fs[p].traction2, impAndEta.etaS, sr2)
  IN  [m EXCEPT !.slipRateMagnitude[p] = srm,
                !.slipRate1[p] = sr1,
                !.slipRate2[p] = sr2,
                !.tractionResults[p] = [traction1 |-> tr1, traction2 |-> tr2],
                !.traction1[p] = tr1,
                !.traction2[p] = tr2,
                !.slip1[p] = slipOf(m.slip1[p], sr1, deltaT(a.timeIndex)),
                !.slip2[p] = slipOf(m.slip2[p], sr2, deltaT(a.timeIndex))]

\* stateVariableIteration reading the accumulated slip of the first point
\* instead of the point's own
stateVariableIterationFirstPoint(m, p, a) ==
  LET acc == accumulatedSlipOf(m.accumulatedSlipMagnitude[1], a.resampledSlipRate[p],
                               deltaT(a.timeIndex))
  IN  [m EXCEPT !.accumulatedSlipMagnitude[p] = acc,
                !.stateVariableBuffer[p] = stateVariableOf(acc, dC[p])]

\* loop body of calcStateVariableHook, after the resample kernel
stateVariableIteration(m, p, a) ==
  LET acc == accumulatedSlipOf(m.accumulatedSlipMagnitude[p], a.resampledSlipRate[p],
                               deltaT(a.timeIndex))
  IN  [m EXCEPT !.accumulatedSlipMagnitude[p] = acc,
                !.stateVariableBuffer[p] = stateVariableOf(acc, dC[p])]

\* loop body of frictionFunctionHook
frictionIteration(m, p, a) ==
  [m EXCEPT !.mu[p] = frictionOf(muS[p], muD[p], m.stateVariableBuffer[p])]

\* loop body of saveRuptureFrontOutput
ruptureFrontIteration(m, p, a) ==
  IF ruptureFrontReached(m.ruptureTimePending[p], m.slipRateMagnitude[p])
    THEN [m EXCEPT !.ruptureTime[p] = a.fullUpdateTime,
                   !.ruptureTimePending[p] = FALSE]
    ELSE m

\* loop body of savePeakSlipRateOutput
peakSlipRateIteration(m, p, a) ==
  [m EXCEPT !.peakSlipRate[p] = peakOf(m.peakSlipRate[p], m.slipRateMagnitude[p])]

\* loop body of saveDynamicStressOutput
dynStressIteration(m, p, a) ==
  IF dynStressReached(m.dynStressTimePending[p], m.accumulatedSlipMagnitude[p], dC[p])
    THEN [m EXCEPT !.dynStressTime[p] = mFullUpdateTime,
                   !.dynStressTimePending[p] = FALSE]
    ELSE m

\* the iteration of stage s at point p
Iteration(s, m, p, a) ==
  CASE s = "strength"      -> strengthIteration(m, p, a)
    [] s = "slipRate"      -> slipRateIteration(m, p, a)
    [] s = "stateVariable" -> stateVariableIteration(m, p, a)
    [] s = "coefficient"   -> frictionIteration(m, p, a)
    [] s = "ruptureFront"  -> ruptureFrontIteration(m, p, a)
    [] s = "peakSlipRate"  -> peakSlipRateIteration(m, p, a)
    [] s = "dynStress"     -> dynStressIteration(m, p, a)

\* for (pointIndex = 0; pointIndex < n; pointIndex++): the iterations in
\* ascending order
RECURSIVE sequentialLoop(_, _, _, _)
sequentialLoop(s, m, n, a) ==
  IF n = 0 THEN m ELSE Iteration(s, sequentialLoop(s, m, n - 1, a), n, a)

\* the arrays take the values of m
Store(m) ==
  /\ strengthBuffer' = m.strengthBuffer
  /\ slipRateMagnitude' = m.slipRateMagnitude
  /\ slipRate1' = m.slipRate1
  /\ slipRate2' = m.slipRate2
  /\ tractionResults' = m.tractionResults
  /\ traction1' = m.traction1
  /\ traction2' = m.traction2
  /\ slip1' = m.slip1
  /\ slip2' = m.slip2
  /\ accumulatedSlipMagnitude' = m.accumulatedSlipMagnitude
  /\ stateVariableBuffer' = m.stateVariableBuffer
  /\ mu' = m.mu
  /\ ruptureTimePending' = m.ruptureTimePending
  /\ ruptureTime' = m.ruptureTime
  /\ peakSlipRate' = m.peakSlipRate
  /\ dynStressTimePending' = m.dynStressTimePending
  /\ dynStressTime' = m.dynStressTime

\* a stage is entered: its arguments are fixed, the resample kernel has run
\* when the stage is the loop of calcStateVariableHook, and no iteration has
\* run yet; expected is what the loop in ascending order leaves
beginStage(s, fs, timeIndex, fullUpdateTime) ==
  /\ stage = "idle"
  /\ ExactMagnitudes(fs)
  /\ \E a \in {StageArgs(fs, timeIndex, fullUpdateTime,
                         IF s = "stateVariable" THEN resampleKrnl(slipRateMagnitude)
                                                ELSE NoTmpSlip)} :
       /\ stageArgs' = a
       /\ expected' = sequentialLoop(s, Mem, numPaddedPoints, a)
  /\ stage' = s
  /\ todo' = Points
  /\ step' = step + 1
  /\ UNCHANGED <<faceVars, frictionVars, ruptureVars, dynStressVars, peakSlipRate,
                 averagedSlip, mFullUpdateTime, lastCall, peakInputs>>

\* the iteration of one point that has not run in this stage, in any order
pointIteration(p) ==
  /\ stage # "idle"
  /\ p \in todo
  /\ \E m \in {Iteration(stage, Mem, p, stageArgs)} : Store(m)
  /\ todo' = todo \ {p}
  /\ UNCHANGED <<faceVars, faultStresses, averagedSlip, mFullUpdateTime, lastCall,
                 peakInputs, step, stage, stageArgs, expected>>

\* every iteration of the stage has run
endStage ==
  /\ stage # "idle"
  /\ todo = {}
  /\ stage' = "idle"
  /\ UNCHANGED <<faceVars, frictionVars, ruptureVars, dynStressVars, peakSlipRate,
                 averagedSlip, mFullUpdateTime, lastCall, peakInputs, step,
                 todo, stageArgs, expected>>

NextPoints ==
  \/ \E s \in FrictionStageNames, fs \in PointStressRows :
       step < MaxStages /\ beginStage(s, fs, 0, One)
  \/ \E s \in OutputStageNames :
       step < MaxStages /\ beginStage(s, UniformRow(StressAtRest), 0, One)
  \/ \E p \in Points : pointIteration(p)
  \/ endStage

SpecPoints == Init /\ [][NextPoints]_vars

(***************************************************************************)
(* Properties                                                              *)
(***************************************************************************)
Updated == lastCall.op = "updateFrictionAndSlip"

\* the total shear traction at p that the last updateFrictionAndSlip saw
T1(p) == totalTraction1(faultStresses, p)

T2(p) == totalTraction2(faultStresses, p)

AbsT(p) == absoluteTraction(faultStresses, p)

MaxOf(S) == CHOOSE m \in S : \A v \in S : RLe(v, m)

RECURSIVE SumOver(_, _)
SumOver(S, f) ==
  IF S = {} THEN Zero
  ELSE LET q == CHOOSE q \in S : TRUE IN RAdd(f[q], SumOver(S \ {q}, f))

\* C1: a pending flag that is false stays false, and the time recorded with it
\* is not written again, whatever is called with whatever slip rates,
\* accumulated slip and times.
PendingFlagsWriteOnce ==
  [][\A p \in Points :
       /\ ~ruptureTimePending[p] =>
            ~ruptureTimePending'[p] /\ ruptureTime'[p] = ruptureTime[p]
       /\ ~dynStressTimePending[p] =>
            ~dynStressTimePending'[p] /\ dynStressTime'[p] = dynStressTime[p]]_vars

\* saveRuptureFrontOutput was called with another time at a point that is no
\* longer pending and still slips above the threshold
RuptureTimeKept ==
  /\ lastCall.op = "saveRuptureFrontOutput"
  /\ \E p \in Points :
       /\ ~ruptureTimePending[p]
       /\ RGt(slipRateMagnitude[p], ruptureFrontThreshold)
       /\ ruptureTime[p] # lastCall.fullUpdateTime

\* C2: updateFrictionAndSlip (calcStateVariableHook) never lowers the absolute
\* value of the accumulated slip magnitude of a point.
AccumulatedSlipNonDecreasing ==
  [][lastCall'.op = "updateFrictionAndSlip" =>
       \A p \in Points :
         RGe(Fabs(accumulatedSlipMagnitude'[p]), Fabs(accumulatedSlipMagnitude[p]))]_vars

\* the state variable buffer at p is the one of the accumulated slip at p
StateVariableOfSlip(sv, acc, dc) ==
  /\ RGe(Fabs(acc), dc) => sv = One
  /\ RLt(Fabs(acc), dc) => RMul(sv, dc) = Fabs(acc)

\* C3: the state variable written by calcStateVariableHook is
\* min(|accumulatedSlipMagnitude| / dC, 1), lies in [0, 1], and from one
\* evaluation to the next it does not decrease where |accumulatedSlipMagnitude|
\* did not decrease.
StateVariableClampedMonotone ==
  /\ [](Updated =>
          \A p \in Points :
            /\ StateVariableOfSlip(stateVariableBuffer[p], accumulatedSlipMagnitude[p], dC[p])
            /\ RLe(Zero, stateVariableBuffer[p])
            /\ RLe(stateVariableBuffer[p], One))
  /\ [][lastCall'.op = "updateFrictionAndSlip" =>
          \A p \in Points :
            (/\ StateVariableOfSlip(stateVariableBuffer[p], accumulatedSlipMagnitude[p], dC[p])
             /\ RGe(Fabs(accumulatedSlipMagnitude'[p]), Fabs(accumulatedSlipMagnitude[p])))
            => RGe(stateVariableBuffer'[p], stateVariableBuffer[p])]_vars

\* after an evaluation one point is clamped at 1 by slip beyond dC and another
\* is strictly inside (0, 1)
StateVariableClampReached ==
  /\ Updated
  /\ \E p \in Points :
       RGt(Fabs(accumulatedSlipMagnitude[p]), dC[p]) /\ stateVariableBuffer[p] = One
  /\ \E q \in Points :
       RLt(Zero, stateVariableBuffer[q]) /\ RLt(stateVariableBuffer[q], One)

\* C4: after the coefficient stage, at a point with muD <= muS, muD <= mu <= muS,
\* mu = muS where the state variable is 0 and mu = muD where it is 1.
FrictionCoefficientBetween ==
  Updated =>
    \A p \in Points :
      RLe(muD[p], muS[p]) =>
        /\ RLe(muD[p], mu[p])
        /\ RLe(mu[p], muS[p])
        /\ stateVariableBuffer[p] = Zero => mu[p] = muS[p]
        /\ stateVariableBuffer[p] = One => mu[p] = muD[p]

\* after an evaluation one point has weakened to muD < muS and another is
\* strictly between muD and muS
FrictionCoefficientWeakened ==
  /\ Updated
  /\ \E p \in Points :
       RLt(muD[p], muS[p]) /\ stateVariableBuffer[p] = One /\ mu[p] = muD[p]
  /\ \E q \in Points : RLt(muD[q], mu[q]) /\ RLt(mu[q], muS[q])

\* C5: the stored slipRateMagnitude of every point, padded points included,
\* is >= 0.
SlipRateMagnitudeNonNegative ==
  \A p \in Points : RGe(slipRateMagnitude[p], Zero)

\* after an evaluation a padded point and a boundary point are held below
\* their strength while another boundary point slips
SlipRateClampReached ==
  /\ Updated
  /\ RLt(AbsT(numPaddedPoints), strengthBuffer[numPaddedPoints])
  /\ \E p \in BoundaryPoints : RLt(AbsT(p), strengthBuffer[p])
  /\ \E q \in BoundaryPoints : RGt(slipRateMagnitude[q], Zero)

\* C6: where the total predicted shear traction is below the strength,
\* calcSlipRateAndTraction leaves slipRateMagnitude, slipRate1 and slipRate2
\* zero, the traction results equal to the fault stresses, and slip1 and slip2
\* as they were.
NoSlipBelowStrength ==
  [][lastCall'.op = "updateFrictionAndSlip" =>
       \A p \in Points :
         RLt(absoluteTraction(faultStresses', p), strengthBuffer'[p]) =>
           /\ slipRateMagnitude'[p] = Zero
           /\ slipRate1'[p] = Zero
           /\ slipRate2'[p] = Zero
           /\ tractionResults'[p].traction1 = faultStresses'[p].traction1
           /\ tractionResults'[p].traction2 = faultStresses'[p].traction2
           /\ traction1'[p] = faultStresses'[p].traction1
           /\ traction2'[p] = faultStresses'[p].traction2
           /\ slip1'[p] = slip1[p]
           /\ slip2'[p] = slip2[p]]_vars

\* a point that has slipped before is held by a nonzero traction below its strength
HeldBelowStrengthAfterSlip ==
  /\ Updated
  /\ \E p \in BoundaryPoints :
       /\ RLt(AbsT(p), strengthBuffer[p])
       /\ RGt(AbsT(p), Zero)
       /\ slip1[p] # Zero
       /\ slipRateMagnitude[p] = Zero

Slipping(p) ==
  /\ RMul(impAndEta.etaS, impAndEta.invEtaS) = One
  /\ RGt(strengthBuffer[p], Zero)
  /\ RGt(AbsT(p), strengthBuffer[p])

\* C7 as stated: where |T| exceeds a positive strength, slipRateMagnitude is
\* (|T| - strength) * invEtaS and the traction results are the predicted
\* traction scaled to the magnitude of the strength.
TractionResultsClippedToStrength ==
  Updated =>
    \A p \in Points :
      Slipping(p) =>
        /\ slipRateMagnitude[p] = RMul(RSub(AbsT(p), strengthBuffer[p]), impAndEta.invEtaS)
        /\ tractionResults[p].traction1 = RMul(T1(p), RDiv(strengthBuffer[p], AbsT(p)))
        /\ tractionResults[p].traction2 = RMul(T2(p), RDiv(strengthBuffer[p], AbsT(p)))

\* C7 amended: where |T| exceeds a positive strength, slipRateMagnitude is
\* (|T| - strength) * invEtaS and the initial shear traction plus the traction
\* results is the predicted total traction scaled to the magnitude of the
\* strength; the traction results alone are so when the initial shear
\* traction is zero.
TotalTractionClippedToStrength ==
  Updated =>
    \A p \in Points :
      Slipping(p) =>
        /\ slipRateMagnitude[p] = RMul(RSub(AbsT(p), strengthBuffer[p]), impAndEta.invEtaS)
        /\ RAdd(initialStressInFaultCS[p].t1, tractionResults[p].traction1)
             = RMul(T1(p), RDiv(strengthBuffer[p], AbsT(p)))
        /\ RAdd(initialStressInFaultCS[p].t2, tractionResults[p].traction2)
             = RMul(T2(p), RDiv(strengthBuffer[p], AbsT(p)))
        /\ traction1[p] = tractionResults[p].traction1
        /\ traction2[p] = tractionResults[p].traction2

\* strength 5, predicted traction (8, 0), no initial shear traction: slip rate
\* 3 * invEtaS and final traction (5, 0)
ClippedFromEightToFive ==
  /\ Updated
  /\ \E p \in Points :
       /\ initialStressInFaultCS[p].t1 = Zero /\ initialStressInFaultCS[p].t2 = Zero
       /\ strengthBuffer[p] = Rat(5, 1)
       /\ faultStresses[p].traction1 = Rat(8, 1) /\ faultStresses[p].traction2 = Zero
       /\ slipRateMagnitude[p] = RMul(Rat(3, 1), impAndEta.invEtaS)
       /\ tractionResults[p].traction1 = Rat(5, 1) /\ tractionResults[p].traction2 = Zero

\* C8: peakSlipRate is the maximum of its initial value 0 and the slip rate
\* magnitudes passed to savePeakSlipRateOutput so far, and no step lowers it.
PeakSlipRateRunningMax ==
  /\ [](\A p \in Points : peakSlipRate[p] = MaxOf({Zero} \cup peakInputs[p]))
  /\ [][\A p \in Points : RGe(peakSlipRate'[p], peakSlipRate[p])]_vars

\* savePeakSlipRateOutput was passed a slip rate below the peak it had seen
PeakKeptAboveLaterSlipRate ==
  /\ lastCall.op = "savePeakSlipRateOutput"
  /\ \E p \in Points :
       /\ RLt(slipRateMagnitude[p], peakSlipRate[p])
       /\ Cardinality(peakInputs[p]) >= 2

\* C9: saveAverageSlipOutput adds to averagedSlip the sum of tmpSlip over the
\* boundary points divided by their number; the padded tail does not count.
AverageSlipAddsBoundaryMean ==
  [][lastCall'.op = "saveAverageSlipOutput" =>
       RMul(Rat(numberOfBoundaryGaussPoints, 1), RSub(averagedSlip', averagedSlip))
         = SumOver(BoundaryPoints, lastCall'.tmpSlip)]_vars

\* a second call with a nonzero padded tail: tmpSlip is 1 at every boundary
\* point and the accumulator, already above 1, has grown to above 2
AverageSlipAccumulated ==
  /\ lastCall.op = "saveAverageSlipOutput"
  /\ \A p \in BoundaryPoints : lastCall.tmpSlip[p] = One
  /\ lastCall.tmpSlip[numPaddedPoints] # Zero
  /\ RGt(averagedSlip, Rat(2, 1))

\* C10: saveRuptureFrontOutput sets ruptureTime of a pending point to the time
\* it is called with and clears the flag where slipRateMagnitude exceeds
\* 0.001, and leaves both as they were where it does not.
RuptureTimeSetOnExceedance ==
  [][lastCall'.op = "saveRuptureFrontOutput" =>
       \A p \in Points :
         ruptureTimePending[p] =>
           IF RGt(slipRateMagnitude[p], Rat(1, 1000))
             THEN ruptureTime'[p] = lastCall'.fullUpdateTime /\ ~ruptureTimePending'[p]
             ELSE ruptureTime'[p] = ruptureTime[p] /\ ruptureTimePending'[p]]_vars

\* a call at time 1 recorded the front at one point and left pending a point
\* that slips at exactly 0.001 or less
RuptureFrontRecorded ==
  /\ lastCall.op = "saveRuptureFrontOutput"
  /\ lastCall.fullUpdateTime = One
  /\ \E p \in Points :
       /\ ~ruptureTimePending[p]
       /\ ruptureTime[p] = One
       /\ RGt(slipRateMagnitude[p], Rat(1, 1000))
  /\ \E q \in Points :
       ruptureTimePending[q] /\ RLe(slipRateMagnitude[q], Rat(1, 1000))

\* C11: every call of updateFrictionAndSlip runs the four stages once each in
\* the order strength, slip rate and traction, state variable, coefficient: the
\* strength is computed from the friction coefficient the previous call left,
\* the slip rate from the strength of this call, the slip and the accumulated
\* slip advance by one increment, the state variable comes from the accumulated
\* slip of this call and the coefficient from the state variable of this call;
\* the calls that write outputs leave mu, the slip and the slip rates alone
StagesInOrder ==
  [][ /\ (step' # step /\ lastCall'.op = "updateFrictionAndSlip") =>
           /\ accumulatedSlipMagnitude' =
                calcAccumulatedSlip(slipRateMagnitude', lastCall'.timeIndex)
           /\ \A p \in Points :
                /\ strengthBuffer'[p] =
                     strengthOf(cohesion[p], mu[p],
                                RAdd(initialStressInFaultCS[p].n,
                                     faultStresses'[p].normalStress))
                /\ slipRateMagnitude'[p] =
                     slipRateMagnitudeOf(absoluteTraction(faultStresses', p),
                                         strengthBuffer'[p], impAndEta.invEtaS)
                /\ slip1'[p] = slipOf(slip1[p], slipRate1'[p], deltaT(lastCall'.timeIndex))
                /\ slip2'[p] = slipOf(slip2[p], slipRate2'[p], deltaT(lastCall'.timeIndex))
                /\ stateVariableBuffer'[p] =
                     stateVariableOf(accumulatedSlipMagnitude'[p], dC[p])
                /\ mu'[p] = frictionOf(muS[p], muD[p], stateVariableBuffer'[p])
      /\ (step' # step /\ lastCall'.op \notin {"updateFrictionAndSlip", "instantaneousHealing"}) =>
           UNCHANGED <<mu, slip1, slip2, slipRate1, slipRate2, slipRateMagnitude>>
    ]_vars

\* C11 witness: a call whose strength stage used a friction coefficient an
\* earlier call had weakened, at a point that slips in this call
WeakenedFrictionFedStrength ==
  /\ Updated
  /\ \E p \in BoundaryPoints :
       /\ strengthBuffer[p] #
            strengthOf(cohesion[p], muS[p],
                       RAdd(initialStressInFaultCS[p].n, faultStresses[p].normalStress))
       /\ RGt(slipRateMagnitude[p], Zero)
       /\ mu[p] # muS[p]

\* C12: for admissible face data (cohesion <= 0, mu >= 0, etaS > 0) and any
\* total normal stress, after a call of updateFrictionAndSlip the strength of
\* every padded point is strictly positive, the divisor strength + etaS *
\* slipRateMagnitude is strictly positive, and the slip rates are numbers (no
\* division by zero has taken place)
StrengthStrictlyPositive ==
  (/\ Updated
   /\ RGt(impAndEta.etaS, Zero)
   /\ \A p \in Points : RLe(cohesion[p], Zero) /\ RGe(muS[p], Zero) /\ RGe(muD[p], Zero))
  => \A p \in Points :
       /\ RGt(strengthBuffer[p], Zero)
       /\ RGt(divisorOf(strengthBuffer[p], impAndEta.etaS, slipRateMagnitude[p]), Zero)
       /\ ~IsNaN(slipRate1[p])
       /\ ~IsNaN(slipRate2[p])

\* C13: within a stage the iterations of the points may run in any order: when
\* all of them have run the arrays hold what the loop in ascending order
\* leaves (for the strength and the coefficient stage also what the stage
\* computes as a whole); the iteration of a point writes no entry of another
\* point; and the per-face constants (impedances, muS, muD, cohesion, dC, initial
\* stress) are never written
PointIterationsIndependent ==
  /\ [](stage # "idle" /\ todo = {} =>
          /\ Mem = expected
          /\ stage = "strength" => strengthBuffer = calcStrengthHook(stageArgs.fs)
          /\ stage = "coefficient" => mu = frictionFunctionHook(stateVariableBuffer))
  /\ [][ /\ faceVars' = faceVars
         /\ (stage # "idle" /\ stage' = stage /\ todo' # todo) =>
              \A q \in Points \ (todo \ todo') :
                \A f \in DOMAIN Mem : Mem'[f][q] = Mem[f][q]
     ]_vars

\* C13 witness: the loop of calcStateVariableHook has run at every point, in
\* some order, and has added slip at more than one point
StateVariableLoopComplete ==
  /\ stage = "stateVariable"
  /\ todo = {}
  /\ \E p, q \in Points :
       /\ p # q
       /\ accumulatedSlipMagnitude[p] # Zero
       /\ accumulatedSlipMagnitude[q] # Zero
====
